---- MODULE Spec2Model ----
(***************************************************************************)
(* Universal Offline Translator (uot.py): the model store, the runtime's   *)
(* installed packages, the two registry caches (the lru_cache of           *)
(* get_installed_languages and LANGUAGE_CACHE), the concurrent batch       *)
(* install, the index-driven download and the translation request of main. *)
(*                                                                         *)
(* Strings are sequences of one-character strings, so that split, replace, *)
(* startswith and Path.stem are computed as Python computes them.          *)
(***************************************************************************)
EXTENDS Integers, Sequences, FiniteSets, TLC

----------------------------------------------------------------------------
(* Program constants                                                       *)

MAX_DOWNLOAD_THREADS == 3

\* download_file(..., retries: int = 3)
RETRIES == 3

\* the workers of ThreadPoolExecutor() without max_workers, on the smallest
\* machine: min(32, os.cpu_count() + 4), which is at least 5
DEFAULT_MAX_WORKERS == 5

\* "translate-"
TRANSLATE_PREFIX == <<"t","r","a","n","s","l","a","t","e","-">>

\* ".argosmodel", the suffix of glob("*.argosmodel") and of generate_filename
ARGOSMODEL == <<".","a","r","g","o","s","m","o","d","e","l">>

----------------------------------------------------------------------------
(* Bounds of the model                                                     *)

\* longest remote index that is read
MaxIndex == 2

\* most package files that single download_model calls add to a store
MaxFiles == 2

----------------------------------------------------------------------------
(* Python string operations on sequences of characters                     *)

\* s.startswith(p)
StartsWith(s, p) ==
    /\ Len(s) >= Len(p)
    /\ SubSeq(s, 1, Len(p)) = p

\* s.endswith(p)
EndsWith(s, p) ==
    /\ Len(s) >= Len(p)
    /\ SubSeq(s, Len(s) - Len(p) + 1, Len(s)) = p

\* s[i:] with a 1-based i
From(s, i) == SubSeq(s, i, Len(s))

RECURSIVE Split(_, _)
\* s.split(d) for a one-character d: the list of the pieces between the d's
Split(s, d) ==
    IF \A i \in 1..Len(s) : s[i] # d
    THEN <<s>>
    ELSE LET k == CHOOSE i \in 1..Len(s) :
                      /\ s[i] = d
                      /\ \A j \in 1..(i - 1) : s[j] # d
         IN  <<SubSeq(s, 1, k - 1)>> \o Split(From(s, k + 1), d)

RECURSIVE Replace(_, _, _)
\* s.replace(old, new): every occurrence, left to right, not overlapping
Replace(s, old, new) ==
    IF Len(s) = 0 \/ Len(old) = 0 THEN s
    ELSE IF StartsWith(s, old)
         THEN new \o Replace(From(s, Len(old) + 1), old, new)
         ELSE <<s[1]>> \o Replace(From(s, 2), old, new)

\* the index of the last "." of a name, 0 when it has none (str.rfind, 1-based)
LastDot(name) ==
    IF \E i \in 1..Len(name) : name[i] = "."
    THEN CHOOSE i \in 1..Len(name) :
             /\ name[i] = "."
             /\ \A j \in (i + 1)..Len(name) : name[j] # "."
    ELSE 0

\* Path(name).stem: the name without its last suffix
Stem(name) ==
    LET i == LastDot(name)
    IN  IF 1 < i /\ i < Len(name) THEN SubSeq(name, 1, i - 1) ELSE name

\* whether glob("*.argosmodel") yields the name
GlobArgosmodel(name) == EndsWith(name, ARGOSMODEL)

\* normalize_version(version)
normalize_version(version) == Replace(version, <<".">>, <<"_">>)

\* generate_filename(code, package_version)
generate_filename(code, package_version) ==
    code \o <<"-">> \o normalize_version(package_version) \o ARGOSMODEL

\* f"{from_code}_{to_code}", the key of LANGUAGE_CACHE
cache_key(from_code, to_code) == from_code \o <<"_">> \o to_code

----------------------------------------------------------------------------
(* The data the model ranges over                                          *)

EN == <<"e","n">>
SK == <<"s","k">>
DE == <<"d","e">>

\* the language codes a request may name
Codes == {EN, SK, DE}

\* the version part of the file names in the store
V1_0 == <<"1","_","0">>

\* translate-<input>_<output>-<version>.argosmodel, the name of a package file
PackageFile(input, output, version) ==
    TRANSLATE_PREFIX \o input \o <<"_">> \o output \o <<"-">> \o version \o ARGOSMODEL

EN_SK == PackageFile(EN, SK, V1_0)
SK_EN == PackageFile(SK, EN, V1_0)
SK_DE == PackageFile(SK, DE, V1_0)

\* two names that do not follow the convention: no prefix, no "_"
NOTES == <<"n","o","t","e","s">> \o ARGOSMODEL
TRANSLATE_EN == TRANSLATE_PREFIX \o EN \o ARGOSMODEL

\* a file of the directory that glob("*.argosmodel") does not yield
README == <<"r","e","a","d","m","e",".","t","x","t">>

\* the file names of the model
Names == {EN_SK, SK_DE, SK_EN, NOTES, TRANSLATE_EN, README}

\* the (from, to) of the package a file holds (its metadata), by the Argos
\* convention of its name; the other files hold no package
HoldsPackage(name) == name \in {EN_SK, SK_DE, SK_EN}

PackageIn(name) ==
    CHOOSE p \in Codes \X Codes : name = PackageFile(p[1], p[2], V1_0)

\* a file is "full" (completely written) or "part" (truncated); by is the
\* download task that opened a file still being written, 0 for no task
Full == [content |-> "full", by |-> 0]
Part(i) == [content |-> "part", by |-> i]

Store(files, partial) ==
    [n \in files \cup partial |-> IF n \in partial THEN Part(0) ELSE Full]

NoFiles == Store({}, {})

\* the stores a process may find: [dir |-> the directory exists, files |-> ...]
InitStores ==
    { [dir |-> FALSE, files |-> NoFiles],
      [dir |-> TRUE,  files |-> NoFiles],
      [dir |-> TRUE,  files |-> Store({EN_SK}, {})],
      [dir |-> TRUE,  files |-> Store({EN_SK, SK_EN, README}, {SK_DE})],
      [dir |-> TRUE,  files |-> Store({EN_SK, NOTES, TRANSLATE_EN}, {})] }

\* the stores an index-driven install may find
IndexStores ==
    { [dir |-> FALSE, files |-> NoFiles],
      [dir |-> TRUE,  files |-> Store({EN_SK}, {})],
      [dir |-> TRUE,  files |-> Store({}, {SK_EN})] }

----------------------------------------------------------------------------
(* State                                                                   *)

VARIABLES
    dirExists,       \* Path(MODELS_DIR).exists()
    store,           \* the files of MODELS_DIR: name -> Full | Part(i)
    packages,        \* the runtime's installed packages: a set of <<from, to>>
    snapshot,        \* the lru_cache of get_installed_languages
    LANGUAGE_CACHE,  \* cache key -> translation path
    pc,              \* where the main thread is
    exitCode,        \* the status of sys.exit, when pc = "exited"
    caller,          \* who called install_models_from_local_dir
    futures,         \* the install tasks of the batch: file -> state
    collected,       \* the futures as_completed has yielded
    installed,       \* the counter of install_models_from_local_dir
    request,         \* <<args.il, args.ol>> of main
    index_data,      \* the items of the remote index, once fetched
    before,          \* the names of the files of the store when the index run began
    downloads,       \* the download tasks: position in valid_entries -> record
    yielded,         \* the download futures as_completed has yielded
    packages_downloaded,  \* the counter of install_models_from_index
    summary,         \* the counts install_models_from_index prints
    ret              \* the last call that ended: [op, arg, val]

registryVars == <<packages, snapshot, LANGUAGE_CACHE>>
batchVars == <<caller, futures, collected, installed>>
indexVars == <<index_data, before, downloads, yielded, packages_downloaded, summary>>

\* nothing printed yet by install_models_from_index
NoSummary ==
    [printed |-> FALSE, total |-> 0, found |-> 0, downloaded |-> 0, skipped |-> 0]

\* no memoized value (after cache_clear, and at process start)
NoSnapshot == [valid |-> FALSE, pkgs |-> {}]

\* the codes of the languages of a set of installed packages
LanguageCodes(pkgs) == {p[1] : p \in pkgs} \cup {p[2] : p \in pkgs}

\* the value get_installed_languages() returns
get_installed_languages(snap, pkgs) ==
    IF snap.valid THEN snap.pkgs ELSE pkgs

\* the lru_cache after get_installed_languages() returned
Memoized(snap, pkgs) ==
    [valid |-> TRUE, pkgs |-> get_installed_languages(snap, pkgs)]

----------------------------------------------------------------------------
(* detect_available_languages                                              *)

\* the pairs the loop body adds for one model file (none or one)
ParsedPairs(name) ==
    LET stem == Stem(name)
    IN  IF ~StartsWith(stem, TRANSLATE_PREFIX) THEN {}
        ELSE LET parts == Split(stem, "_")
             IN  IF Len(parts) < 2 THEN {}
                 ELSE LET output_lang == Replace(parts[1], TRANSLATE_PREFIX, <<>>)
                          input_lang == Split(parts[2], "-")[1]
                      IN  {<<input_lang, output_lang>>}

\* list(models_dir.glob("*.argosmodel"))
model_files(files) == {n \in DOMAIN files : GlobArgosmodel(n)}

\* the set detect_available_languages returns for the files of the store
available_language_pairs(files) ==
    UNION {ParsedPairs(n) : n \in model_files(files)}

\* validate_language_code(input_lang, output_lang, available_languages)
validate_language_code(input_lang, output_lang, available_languages) ==
    <<input_lang, output_lang>> \in available_languages

----------------------------------------------------------------------------
(* The registry: install_model, clean_model_cache, find_translation        *)

\* the outcomes of argostranslate.package.install_from_path(model_path):
\* TRUE it returns, FALSE it raises; a truncated file and a file that holds
\* no package always raise
InstallOutcomes(files, f) ==
    IF files[f] = Full /\ HoldsPackage(f) THEN {TRUE, FALSE} ELSE {FALSE}

\* the runtime's packages after install_from_path(f) returned
install_from_path(pkgs, f) == pkgs \cup {PackageIn(f)}

\* (mutant) install_model without its cache_clear()
install_model_snapshot_kept(snap) == snap

\* the lru_cache after a successful install_model: cache_clear()
install_model_snapshot(snap) == NoSnapshot

\* LANGUAGE_CACHE after a successful install_model: the code leaves it alone
install_model_LANGUAGE_CACHE(cache) == cache

\* the lru_cache after a clean_model_cache that reached its end: cache_clear()
clean_model_cache_snapshot(snap) == NoSnapshot

\* LANGUAGE_CACHE after clean_model_cache: the code leaves it alone
clean_model_cache_LANGUAGE_CACHE(cache) == cache

\* from_lang.get_translation(to_lang) on the language objects of a snapshot
HasTranslation(langs, from_code, to_code) == <<from_code, to_code>> \in langs

\* the translation object from_lang.get_translation(to_lang) returns: it is
\* bound to the language objects of the list (langs) it was resolved from, so
\* that a path resolved again from another list is another object
Translation(langs, from_code, to_code) ==
    [from |-> from_code, to |-> to_code, langs |-> langs]

\* (mutant) find_translation without the lookup in LANGUAGE_CACHE
find_translation_uncached(cache, snap, pkgs, from_code, to_code) ==
    LET installed_languages == get_installed_languages(snap, pkgs)
        installed_codes == LanguageCodes(installed_languages)
    IN  IF from_code \notin installed_codes
        THEN [kind |-> "not_installed", val |-> from_code]
        ELSE IF to_code \notin installed_codes
        THEN [kind |-> "not_installed", val |-> to_code]
        ELSE IF ~HasTranslation(installed_languages, from_code, to_code)
        THEN [kind |-> "no_path", val |-> <<from_code, to_code>>]
        ELSE [kind |-> "resolved",
              val |-> Translation(installed_languages, from_code, to_code)]

\* (mutant) find_translation without the check of to_lang
find_translation_to_unchecked(cache, snap, pkgs, from_code, to_code) ==
    LET key == cache_key(from_code, to_code)
        installed_languages == get_installed_languages(snap, pkgs)
        installed_codes == LanguageCodes(installed_languages)
    IN  IF key \in DOMAIN cache
        THEN [kind |-> "cached", val |-> cache[key]]
        ELSE IF from_code \notin installed_codes
        THEN [kind |-> "not_installed", val |-> from_code]
        ELSE IF ~HasTranslation(installed_languages, from_code, to_code)
        THEN [kind |-> "no_path", val |-> <<from_code, to_code>>]
        ELSE [kind |-> "resolved",
              val |-> Translation(installed_languages, from_code, to_code)]

\* what find_translation(from_code, to_code) does: "cached" and "resolved"
\* return val, "not_installed" and "no_path" raise TranslatorError
find_translation(cache, snap, pkgs, from_code, to_code) ==
    LET key == cache_key(from_code, to_code)
        installed_languages == get_installed_languages(snap, pkgs)
        installed_codes == LanguageCodes(installed_languages)
    IN  IF key \in DOMAIN cache
        THEN [kind |-> "cached", val |-> cache[key]]
        ELSE IF from_code \notin installed_codes
        THEN [kind |-> "not_installed", val |-> from_code]
        ELSE IF to_code \notin installed_codes
        THEN [kind |-> "not_installed", val |-> to_code]
        ELSE IF ~HasTranslation(installed_languages, from_code, to_code)
        THEN [kind |-> "no_path", val |-> <<from_code, to_code>>]
        ELSE [kind |-> "resolved",
              val |-> Translation(installed_languages, from_code, to_code)]

Returned(r) == r.kind \in {"cached", "resolved"}

\* the registry after find_translation(from_code, to_code) ended with r
FindTranslationEffect(r, from_code, to_code) ==
    /\ snapshot' = IF r.kind = "cached" THEN snapshot
                   ELSE Memoized(snapshot, packages)
    /\ LANGUAGE_CACHE' =
           IF r.kind = "resolved"
           THEN [k \in DOMAIN LANGUAGE_CACHE \cup {cache_key(from_code, to_code)} |->
                    IF k = cache_key(from_code, to_code) THEN r.val
                    ELSE LANGUAGE_CACHE[k]]
           ELSE LANGUAGE_CACHE
    /\ UNCHANGED packages

\* sys.exit(code), called by the function `where`
Exit(where, code) ==
    /\ pc' = "exited"
    /\ exitCode' = code
    /\ ret' = [op |-> "sys.exit", arg |-> where, val |-> code]

Running == UNCHANGED <<pc, exitCode>>

----------------------------------------------------------------------------
(* Calls of the module's functions, one after the other                    *)

\* get_installed_languages()
CallGetInstalledLanguages ==
    /\ pc = "idle"
    /\ snapshot' = Memoized(snapshot, packages)
    /\ ret' = [op |-> "get_installed_languages", arg |-> <<>>,
               val |-> get_installed_languages(snapshot, packages)]
    /\ Running
    /\ UNCHANGED <<dirExists, store, packages, LANGUAGE_CACHE, batchVars, request, indexVars>>

\* detect_available_languages()
CallDetectAvailableLanguages ==
    /\ pc = "idle"
    /\ IF ~dirExists \/ model_files(store) = {}
       THEN Exit("detect_available_languages", 1)
       ELSE /\ Running
            /\ ret' = [op |-> "detect_available_languages", arg |-> <<>>,
                       val |-> available_language_pairs(store)]
    /\ UNCHANGED <<dirExists, store, registryVars, batchVars, request, indexVars>>

\* install_model(f), its whole body
CallInstallModel(f) ==
    /\ pc = "idle"
    /\ IF f \notin DOMAIN store
       THEN /\ ret' = [op |-> "install_model", arg |-> f, val |-> FALSE]
            /\ UNCHANGED registryVars
       ELSE \E ok \in InstallOutcomes(store, f) :
              IF ok
              THEN /\ packages' = install_from_path(packages, f)
                   /\ snapshot' = install_model_snapshot(snapshot)
                   /\ LANGUAGE_CACHE' = install_model_LANGUAGE_CACHE(LANGUAGE_CACHE)
                   /\ ret' = [op |-> "install_model", arg |-> f, val |-> TRUE]
              ELSE /\ ret' = [op |-> "install_model", arg |-> f, val |-> FALSE]
                   /\ UNCHANGED registryVars
    /\ Running
    /\ UNCHANGED <<dirExists, store, batchVars, request, indexVars>>

\* clean_model_cache(): update_package_index() raises (sys.exit(1)), or every
\* entry of the package data directory is removed but those whose removal
\* fails (kept), and the lru_cache is cleared
CallCleanModelCache ==
    /\ pc = "idle"
    /\ \/ /\ Exit("clean_model_cache", 1)
          /\ UNCHANGED registryVars
       \/ \E kept \in SUBSET packages :
            /\ packages' = kept
            /\ snapshot' = clean_model_cache_snapshot(snapshot)
            /\ LANGUAGE_CACHE' = clean_model_cache_LANGUAGE_CACHE(LANGUAGE_CACHE)
            /\ ret' = [op |-> "clean_model_cache", arg |-> <<>>, val |-> TRUE]
            /\ Running
    /\ UNCHANGED <<dirExists, store, batchVars, request, indexVars>>

\* (mutant) the directory removed and created again
mkdir_recreated(files) == NoFiles

\* the files of MODELS_DIR after Path(MODELS_DIR).mkdir(exist_ok=True)
mkdir_exist_ok(files) == files

\* ensure_models_dir()
CallEnsureModelsDir ==
    /\ pc = "idle"
    /\ dirExists' = TRUE
    /\ store' = mkdir_exist_ok(store)
    /\ ret' = [op |-> "ensure_models_dir", arg |-> <<>>, val |-> TRUE]
    /\ Running
    /\ UNCHANGED <<registryVars, batchVars, request, indexVars>>

\* find_translation(from_code, to_code)
CallFindTranslation(from_code, to_code) ==
    /\ pc = "idle"
    /\ LET r == find_translation(LANGUAGE_CACHE, snapshot, packages, from_code, to_code)
       IN  /\ FindTranslationEffect(r, from_code, to_code)
           /\ ret' = [op |-> "find_translation", arg |-> <<from_code, to_code>>, val |-> r]
    /\ Running
    /\ UNCHANGED <<dirExists, store, batchVars, request, indexVars>>

----------------------------------------------------------------------------
(* install_models_from_local_dir: one install_model task per model file    *)

\* where install_models_from_local_dir returns to
Continuation(c) ==
    CASE c = "main" -> "main_read"
      [] c = "index" -> "index_exit"
      [] OTHER -> "idle"

\* the checks of the directory, then one submit per model file
install_models_from_local_dir(c) ==
    IF ~dirExists \/ model_files(store) = {}
    THEN /\ Exit("install_models_from_local_dir:no_models", 1)
         /\ UNCHANGED batchVars
    ELSE /\ pc' = "batch"
         /\ ret' = [op |-> "submit", arg |-> c, val |-> model_files(store)]
         /\ caller' = c
         /\ futures' = [f \in model_files(store) |-> "queued"]
         /\ collected' = {}
         /\ installed' = 0
         /\ UNCHANGED exitCode

CallInstallModelsFromLocalDir ==
    /\ pc = "idle"
    /\ install_models_from_local_dir("idle")
    /\ UNCHANGED <<dirExists, store, registryVars, request, indexVars>>

\* the install tasks a worker of the pool is running
InstallsRunning == {f \in DOMAIN futures : futures[f] = "installed"}

\* a free worker runs install_model(f) up to the return of install_from_path
TaskInstall(f) ==
    /\ pc = "batch"
    /\ futures[f] = "queued"
    /\ Cardinality(InstallsRunning) < DEFAULT_MAX_WORKERS
    /\ IF f \notin DOMAIN store
       THEN /\ futures' = [futures EXCEPT ![f] = "false"]
            /\ ret' = [op |-> "install_model", arg |-> f, val |-> FALSE]
            /\ UNCHANGED packages
       ELSE \E ok \in InstallOutcomes(store, f) :
              IF ok
              THEN /\ packages' = install_from_path(packages, f)
                   /\ futures' = [futures EXCEPT ![f] = "installed"]
                   /\ ret' = [op |-> "install_from_path", arg |-> f, val |-> TRUE]
              ELSE /\ futures' = [futures EXCEPT ![f] = "false"]
                   /\ ret' = [op |-> "install_model", arg |-> f, val |-> FALSE]
                   /\ UNCHANGED packages
    /\ UNCHANGED <<dirExists, store, snapshot, LANGUAGE_CACHE, pc, exitCode,
                   caller, collected, installed, request, indexVars>>

\* the worker clears the lru_cache and returns True
TaskReturn(f) ==
    /\ pc = "batch"
    /\ futures[f] = "installed"
    /\ snapshot' = install_model_snapshot(snapshot)
    /\ LANGUAGE_CACHE' = install_model_LANGUAGE_CACHE(LANGUAGE_CACHE)
    /\ futures' = [futures EXCEPT ![f] = "true"]
    /\ ret' = [op |-> "install_model", arg |-> f, val |-> TRUE]
    /\ UNCHANGED <<dirExists, store, packages, pc, exitCode,
                   caller, collected, installed, request, indexVars>>

\* (mutant) the loop over the futures left at the first result
first_completed_done(done, fs) == done # {} \/ DOMAIN fs = {}

\* the for loop over as_completed(futures) has ended, and with it the with
\* block of the executor: every submitted future was yielded
as_completed_done(done, fs) == done = DOMAIN fs

\* as_completed yields a finished future; the main thread counts its result
Collect(f) ==
    /\ pc = "batch"
    /\ f \notin collected
    /\ futures[f] \in {"true", "false"}
    /\ collected' = collected \cup {f}
    /\ installed' = IF futures[f] = "true" THEN installed + 1 ELSE installed
    /\ UNCHANGED <<dirExists, store, registryVars, pc, exitCode,
                   caller, futures, request, ret, indexVars>>

\* (mutant) a batch in which any install failed is fatal
BatchFailsOnAnyFailure(n) == n < Cardinality(DOMAIN futures)

\* whether install_models_from_local_dir ends with sys.exit(1)
BatchFails(n) == n = 0

\* what follows the with block: sys.exit(1) when nothing was installed
BatchEnd ==
    /\ pc = "batch"
    /\ as_completed_done(collected, futures)
    /\ IF BatchFails(installed)
       THEN Exit("install_models_from_local_dir:none_installed", 1)
       ELSE /\ pc' = Continuation(caller)
            /\ ret' = [op |-> "install_models_from_local_dir", arg |-> <<>>,
                       val |-> installed]
            /\ UNCHANGED exitCode
    /\ UNCHANGED <<dirExists, store, registryVars, batchVars, request, indexVars>>

----------------------------------------------------------------------------
(* main: a translation request -il il -ol ol                               *)

MainStart(il, ol) ==
    /\ pc = "idle"
    /\ pc' = "main_validate"
    /\ request' = <<il, ol>>
    /\ UNCHANGED <<dirExists, store, registryVars, batchVars, exitCode, ret,
                   indexVars>>

\* detect_available_languages(), then validate_language_code
MainValidate ==
    /\ pc = "main_validate"
    /\ IF ~dirExists \/ model_files(store) = {}
       THEN Exit("detect_available_languages", 1)
       ELSE IF validate_language_code(request[1], request[2],
                                      available_language_pairs(store))
            THEN /\ pc' = "main_text"
                 /\ ret' = [op |-> "validate_language_code", arg |-> request,
                            val |-> TRUE]
                 /\ UNCHANGED exitCode
            ELSE Exit("validate_language_code", 1)
    /\ UNCHANGED <<dirExists, store, registryVars, batchVars, request, indexVars>>

\* the text of the command line or of stdin; sys.exit(1) when there is none
MainText(given) ==
    /\ pc = "main_text"
    /\ IF given THEN pc' = "main_ensure" /\ UNCHANGED <<exitCode, ret>>
       ELSE Exit("main", 1)
    /\ UNCHANGED <<dirExists, store, registryVars, batchVars, request, indexVars>>

\* (mutant) main installs the local models when a language of the request
\* is not installed
NotInstalledForRequest(installed_languages) ==
    ~({request[1], request[2]} \subseteq LanguageCodes(installed_languages))

\* not get_installed_languages(), the condition of main's local install
NothingInstalled(installed_languages) == installed_languages = {}

\* if not get_installed_languages(): install_models_from_local_dir(verbose)
MainEnsure ==
    /\ pc = "main_ensure"
    /\ snapshot' = Memoized(snapshot, packages)
    /\ IF NothingInstalled(get_installed_languages(snapshot, packages))
       THEN install_models_from_local_dir("main")
       ELSE /\ pc' = "main_read"
            /\ ret' = [op |-> "get_installed_languages", arg |-> <<>>,
                       val |-> get_installed_languages(snapshot, packages)]
            /\ UNCHANGED <<exitCode, batchVars>>
    /\ UNCHANGED <<dirExists, store, packages, LANGUAGE_CACHE, request, indexVars>>

\* installed_languages = get_installed_languages()
MainRead ==
    /\ pc = "main_read"
    /\ snapshot' = Memoized(snapshot, packages)
    /\ ret' = [op |-> "get_installed_languages", arg |-> <<>>,
               val |-> get_installed_languages(snapshot, packages)]
    /\ pc' = "main_find"
    /\ UNCHANGED <<dirExists, store, packages, LANGUAGE_CACHE, batchVars,
                   exitCode, request, indexVars>>

\* translation = find_translation(args.il, args.ol); TranslatorError exits
MainFind ==
    /\ pc = "main_find"
    /\ LET r == find_translation(LANGUAGE_CACHE, snapshot, packages,
                                 request[1], request[2])
       IN  /\ FindTranslationEffect(r, request[1], request[2])
           /\ IF Returned(r)
              THEN /\ pc' = "main_translate"
                   /\ ret' = [op |-> "find_translation", arg |-> request, val |-> r]
                   /\ UNCHANGED exitCode
              ELSE Exit("find_translation", 1)
    /\ UNCHANGED <<dirExists, store, batchVars, request, indexVars>>

\* output_text = translation.translate(input_text), printed; an exception exits
MainTranslate(ok) ==
    /\ pc = "main_translate"
    /\ IF ok
       THEN /\ ret' = [op |-> "translate", arg |-> ret.val.val, val |-> TRUE]
            /\ pc' = "exited"
            /\ exitCode' = 0
       ELSE Exit("translate", 1)
    /\ UNCHANGED <<dirExists, store, registryVars, batchVars, request, indexVars>>

----------------------------------------------------------------------------
(* install_models_from_index: the download tasks, the summary, the install *)

\* the items a remote index may hold: two package descriptors, an entry
\* without package_version, and a null entry
ITEM_EN_SK == [code |-> TRANSLATE_PREFIX \o EN \o <<"_">> \o SK,
               package_version |-> <<"1", ".", "0">>]
ITEM_SK_EN == [code |-> TRANSLATE_PREFIX \o SK \o <<"_">> \o EN,
               package_version |-> <<"1", ".", "0">>]
ITEM_NO_VERSION == [code |-> TRANSLATE_PREFIX \o SK \o <<"_">> \o DE]
ITEM_NULL == [x \in {} |-> x]

Items == {ITEM_EN_SK, ITEM_SK_EN, ITEM_NO_VERSION, ITEM_NULL}

\* the indexes of the model: the sequences of at most MaxIndex items
Indexes == UNION {[1..n -> Items] : n \in 0..MaxIndex}

\* item and all(k in item for k in ("code", "package_version"))
ValidEntry(item) ==
    /\ DOMAIN item # {}
    /\ {"code", "package_version"} \subseteq DOMAIN item

RECURSIVE valid_entries(_)
\* [item for item in index_data if ...], in the order of the index
valid_entries(data) ==
    IF Len(data) = 0 THEN <<>>
    ELSE IF ValidEntry(Head(data))
         THEN <<Head(data)>> \o valid_entries(Tail(data))
         ELSE valid_entries(Tail(data))

\* the file name under MODELS_DIR that download_model writes for an entry
Dest(i) ==
    LET item == valid_entries(index_data)[i]
    IN  generate_filename(item.code, item.package_version)

\* the download tasks a worker of the pool is running
Active == {i \in DOMAIN downloads :
              downloads[i].state \in {"request", "writing", "cleanup", "remove"}}

Finished(i) == downloads[i].state \in {"true", "false"}

\* (mutant) the except branch without its os.remove
remove_skipped(files, dest) == files

\* os.remove(dest_path) of a file that exists
remove(files, dest) ==
    [n \in DOMAIN files \ {dest} |-> files[n]]

\* (mutant) one attempt more than retries
AttemptsLeftOffByOne(attempt) == attempt < RETRIES

\* whether the for loop of download_file has another attempt after this one
AttemptsLeft(attempt) == attempt < RETRIES - 1

\* open(dest_path, 'wb') by task i: the file is created, or truncated
open_wb(files, dest, i) ==
    [n \in DOMAIN files \cup {dest} |-> IF n = dest THEN Part(i) ELSE files[n]]

\* the with block of task i wrote the last chunk and closed the file: the
\* file at dest is complete if it is still the one task i opened and no other
\* task truncated it since
written(files, dest, i) ==
    [n \in DOMAIN files |->
        IF n = dest /\ files[n] = Part(i) THEN Full ELSE files[n]]

\* ensure_models_dir(), the fetch of the index (sys.exit(1) when it fails or
\* is no JSON) and one submit per valid entry
IndexStart(data, fetched) ==
    /\ pc = "idle"
    /\ dirExists' = TRUE
    /\ store' = mkdir_exist_ok(store)
    /\ IF ~fetched
       THEN /\ Exit("install_models_from_index", 1)
            /\ UNCHANGED indexVars
       ELSE /\ pc' = "download"
            /\ index_data' = data
            /\ before' = DOMAIN store
            /\ downloads' = [i \in 1..Len(valid_entries(data)) |->
                                [state |-> "queued", attempt |-> 0,
                                 requests |-> 0, why |-> "none"]]
            /\ yielded' = {}
            /\ packages_downloaded' = 0
            /\ ret' = [op |-> "submit", arg |-> "index", val |-> Len(valid_entries(data))]
            /\ UNCHANGED <<exitCode, summary>>
    /\ UNCHANGED <<registryVars, batchVars, request>>

\* a free worker takes the next task: download_model up to the existence
\* check of the destination
DlStart(i) ==
    /\ pc = "download"
    /\ downloads[i].state = "queued"
    /\ \A j \in 1..(i - 1) : downloads[j].state # "queued"
    /\ Cardinality(Active) < MAX_DOWNLOAD_THREADS
    /\ downloads' = [downloads EXCEPT ![i] =
                        IF Dest(i) \in DOMAIN store
                        THEN [@ EXCEPT !.state = "false", !.why = "exists"]
                        ELSE [@ EXCEPT !.state = "request"]]
    /\ ret' = IF Dest(i) \in DOMAIN store
              THEN [op |-> "download_model", arg |-> i, val |-> FALSE]
              ELSE ret
    /\ UNCHANGED <<dirExists, store, registryVars, batchVars, request, pc, exitCode,
                   index_data, before, yielded, packages_downloaded, summary>>

\* requests.get of one attempt: 404 (return False), a failure before the file
\* is opened (connection error, timeout, raise_for_status), or a response
\* whose body is then streamed to the opened file
DlRequest(i, outcome) ==
    /\ pc = "download"
    /\ downloads[i].state = "request"
    /\ CASE outcome = "404" ->
              /\ downloads' = [downloads EXCEPT ![i] =
                     [@ EXCEPT !.state = "false", !.why = "404",
                               !.requests = @ + 1]]
              /\ ret' = [op |-> "download_file", arg |-> i, val |-> FALSE]
              /\ UNCHANGED store
         [] outcome = "error" ->
              /\ downloads' = [downloads EXCEPT ![i] =
                     [@ EXCEPT !.state = "cleanup", !.requests = @ + 1]]
              /\ UNCHANGED <<store, ret>>
         [] OTHER ->
              /\ downloads' = [downloads EXCEPT ![i] =
                     [@ EXCEPT !.state = "writing", !.requests = @ + 1]]
              /\ store' = open_wb(store, Dest(i), i)
              /\ UNCHANGED ret
    /\ UNCHANGED <<dirExists, registryVars, batchVars, request, pc, exitCode,
                   index_data, before, yielded, packages_downloaded, summary>>

\* the body is streamed: to its end (return True), or until an exception
DlWrite(i, complete) ==
    /\ pc = "download"
    /\ downloads[i].state = "writing"
    /\ IF complete
       THEN /\ store' = written(store, Dest(i), i)
            /\ downloads' = [downloads EXCEPT ![i] = [@ EXCEPT !.state = "true"]]
            /\ ret' = [op |-> "download_file", arg |-> i, val |-> TRUE]
       ELSE /\ downloads' = [downloads EXCEPT ![i] = [@ EXCEPT !.state = "cleanup"]]
            /\ UNCHANGED <<store, ret>>
    /\ UNCHANGED <<dirExists, registryVars, batchVars, request, pc, exitCode,
                   index_data, before, yielded, packages_downloaded, summary>>

\* after the cleanup of a failed attempt: the sleep and the next attempt, or
\* the end of the loop (return False)
NextAttempt(i) ==
    IF AttemptsLeft(downloads[i].attempt)
    THEN /\ downloads' = [downloads EXCEPT ![i] =
                [@ EXCEPT !.state = "request", !.attempt = @ + 1]]
         /\ UNCHANGED ret
    ELSE /\ downloads' = [downloads EXCEPT ![i] =
                [@ EXCEPT !.state = "false", !.why = "exhausted"]]
         /\ ret' = [op |-> "download_file", arg |-> i, val |-> FALSE]

\* the except branch: if os.path.exists(dest_path)
DlCleanup(i) ==
    /\ pc = "download"
    /\ downloads[i].state = "cleanup"
    /\ IF Dest(i) \in DOMAIN store
       THEN /\ downloads' = [downloads EXCEPT ![i] = [@ EXCEPT !.state = "remove"]]
            /\ UNCHANGED ret
       ELSE NextAttempt(i)
    /\ UNCHANGED <<dirExists, store, registryVars, batchVars, request, pc, exitCode,
                   index_data, before, yielded, packages_downloaded, summary>>

\* (mutant) a cleanup that empties the directory
cleanup_all(files, dest) == NoFiles

\* the store after os.remove(dest_path) in the except branch
cleanup(files, dest) == remove(files, dest)

\* the except branch: os.remove(dest_path); it raises FileNotFoundError out
\* of download_file when the file vanished since the check, and download_model
\* returns False
DlRemove(i) ==
    /\ pc = "download"
    /\ downloads[i].state = "remove"
    /\ IF Dest(i) \in DOMAIN store
       THEN /\ store' = cleanup(store, Dest(i))
            /\ NextAttempt(i)
       ELSE /\ downloads' = [downloads EXCEPT ![i] =
                   [@ EXCEPT !.state = "false", !.why = "raised"]]
            /\ ret' = [op |-> "download_model", arg |-> i, val |-> FALSE]
            /\ UNCHANGED store
    /\ UNCHANGED <<dirExists, registryVars, batchVars, request, pc, exitCode,
                   index_data, before, yielded, packages_downloaded, summary>>

\* as_completed yields a finished download; the main thread counts it
DlCollect(i) ==
    /\ pc = "download"
    /\ i \notin yielded
    /\ Finished(i)
    /\ yielded' = yielded \cup {i}
    /\ packages_downloaded' = IF downloads[i].state = "true"
                              THEN packages_downloaded + 1
                              ELSE packages_downloaded
    /\ UNCHANGED <<dirExists, store, registryVars, batchVars, request, pc, exitCode,
                   ret, index_data, before, downloads, summary>>

\* the counts that install_models_from_index prints: "Total entries in
\* index", "Valid packages found", "Packages downloaded", "Packages skipped
\* (already exist)"
Summary(total, found, downloaded) ==
    [printed |-> TRUE, total |-> total, found |-> found,
     downloaded |-> downloaded, skipped |-> found - downloaded]

\* the summary, then install_models_from_local_dir if anything was
\* downloaded; main's sys.exit(0) otherwise
IndexSummary ==
    /\ pc = "download"
    /\ as_completed_done(yielded, downloads)
    /\ summary' = Summary(Len(index_data), Len(valid_entries(index_data)),
                          packages_downloaded)
    /\ IF packages_downloaded > 0
       THEN install_models_from_local_dir("index")
       ELSE /\ Exit("main", 0)
            /\ UNCHANGED batchVars
    /\ UNCHANGED <<dirExists, store, registryVars, request,
                   index_data, before, downloads, yielded, packages_downloaded>>

\* install_models_from_local_dir returned: main's sys.exit(0)
IndexExit ==
    /\ pc = "index_exit"
    /\ Exit("main", 0)
    /\ UNCHANGED <<dirExists, store, registryVars, batchVars, request, indexVars>>

----------------------------------------------------------------------------
(* Specifications                                                          *)

vars == <<dirExists, store, packages, snapshot, LANGUAGE_CACHE, pc, exitCode,
          caller, futures, collected, installed, request, ret,
          index_data, before, downloads, yielded, packages_downloaded, summary>>

\* a process starts: a store, the packages the runtime holds from earlier
\* installs, and no cache
StartWith(stores, installs) ==
    /\ \E s \in stores :
         /\ dirExists = s.dir
         /\ store = s.files
    /\ packages \in installs
    /\ snapshot = NoSnapshot
    /\ LANGUAGE_CACHE = <<>>
    /\ pc = "idle"
    /\ exitCode = 0
    /\ caller = "idle"
    /\ futures = <<>>
    /\ collected = {}
    /\ installed = 0
    /\ request = <<>>
    /\ ret = [op |-> "none", arg |-> <<>>, val |-> <<>>]
    /\ index_data = <<>>
    /\ before = {}
    /\ downloads = <<>>
    /\ yielded = {}
    /\ packages_downloaded = 0
    /\ summary = NoSummary

\* a process starts with nothing installed in the runtime
Start(stores) == StartWith(stores, {{}})

Init == Start(InitStores)

InitIndex == Start(IndexStores)

\* the functions of the registry called in any order, the batch install and
\* the translation request
Next ==
    \/ CallGetInstalledLanguages
    \/ CallDetectAvailableLanguages
    \/ \E f \in Names : CallInstallModel(f)
    \/ CallCleanModelCache
    \/ CallEnsureModelsDir
    \/ \E a \in Codes, b \in Codes : CallFindTranslation(a, b)
    \/ CallInstallModelsFromLocalDir
    \/ \E f \in DOMAIN futures : TaskInstall(f)
    \/ \E f \in DOMAIN futures : TaskReturn(f)
    \/ \E f \in DOMAIN futures : Collect(f)
    \/ BatchEnd
    \/ \E il \in Codes, ol \in Codes : MainStart(il, ol)
    \/ MainValidate
    \/ \E given \in BOOLEAN : MainText(given)
    \/ MainEnsure
    \/ MainRead
    \/ MainFind
    \/ \E ok \in BOOLEAN : MainTranslate(ok)

Spec == Init /\ [][Next]_vars

\* the index-driven install (-im) of a process
NextIndex ==
    \/ \E data \in Indexes, fetched \in BOOLEAN : IndexStart(data, fetched)
    \/ \E i \in DOMAIN downloads : DlStart(i)
    \/ \E i \in DOMAIN downloads, outcome \in {"404", "error", "ok"} :
          DlRequest(i, outcome)
    \/ \E i \in DOMAIN downloads, complete \in BOOLEAN : DlWrite(i, complete)
    \/ \E i \in DOMAIN downloads : DlCleanup(i)
    \/ \E i \in DOMAIN downloads : DlRemove(i)
    \/ \E i \in DOMAIN downloads : DlCollect(i)
    \/ IndexSummary
    \/ \E f \in DOMAIN futures : TaskInstall(f)
    \/ \E f \in DOMAIN futures : TaskReturn(f)
    \/ \E f \in DOMAIN futures : Collect(f)
    \/ BatchEnd
    \/ IndexExit

SpecIndex == InitIndex /\ [][NextIndex]_vars

\* main with -c: clean_model_cache(verbose), then sys.exit(0)
MainClean ==
    /\ pc = "idle"
    /\ \/ /\ Exit("clean_model_cache", 1)
          /\ UNCHANGED registryVars
       \/ \E kept \in SUBSET packages :
            /\ packages' = kept
            /\ snapshot' = clean_model_cache_snapshot(snapshot)
            /\ LANGUAGE_CACHE' = clean_model_cache_LANGUAGE_CACHE(LANGUAGE_CACHE)
            /\ Exit("main", 0)
    /\ UNCHANGED <<dirExists, store, batchVars, request, indexVars>>

\* main: a process cleans the cache (-c), runs the index-driven install
\* (-im) or a translation request
InitMain ==
    Start(IndexStores
              \cup {[dir |-> TRUE, files |-> Store({EN_SK, SK_EN, README}, {SK_DE})],
                    [dir |-> TRUE, files |-> Store({EN_SK, SK_DE}, {})]})

NextMain ==
    \/ MainClean
    \/ \E il \in Codes, ol \in Codes : MainStart(il, ol)
    \/ MainValidate
    \/ \E given \in BOOLEAN : MainText(given)
    \/ MainEnsure
    \/ MainRead
    \/ MainFind
    \/ \E ok \in BOOLEAN : MainTranslate(ok)
    \/ NextIndex

SpecMain == InitMain /\ [][NextMain]_vars

----------------------------------------------------------------------------
(* download_model called for one descriptor at a time, and the pair         *)
(* derivation on the files it wrote                                         *)

\* the descriptors: a code <input>_<output>, with and without the prefix
\* "translate-" of the codes of the Argos index, and a package_version
Descriptors ==
    { [code |-> EN \o <<"_">> \o SK, package_version |-> <<"1", ".", "9">>],
      [code |-> SK \o <<"_">> \o EN, package_version |-> <<"1", ".", "1", "0", ".", "2">>],
      [code |-> DE \o <<"_">> \o EN, package_version |-> <<"2">>],
      [code |-> SK \o <<"_">> \o DE, package_version |-> <<"1", ".", "0">>],
      ITEM_EN_SK,
      ITEM_SK_EN,
      [code |-> TRANSLATE_PREFIX \o DE \o <<"_">> \o EN, package_version |-> <<"2">>],
      [code |-> TRANSLATE_PREFIX \o SK \o <<"_">> \o DE,
       package_version |-> <<"1", ".", "9">>] }

\* download_model(item) with nothing else running: the skip of an existing
\* destination; a download_file that fails (it leaves no file); or one that
\* writes the file to its end
CallDownloadModel(item, ok) ==
    /\ pc = "idle"
    /\ dirExists
    /\ Cardinality(DOMAIN store) < MaxFiles
    /\ LET filename == generate_filename(item.code, item.package_version)
       IN  IF filename \in DOMAIN store \/ ~ok
           THEN /\ ret' = [op |-> "download_model", arg |-> item, val |-> FALSE]
                /\ UNCHANGED store
           ELSE /\ ret' = [op |-> "download_model", arg |-> item, val |-> TRUE]
                /\ store' = written(open_wb(store, filename, 1), filename, 1)
    /\ Running
    /\ UNCHANGED <<dirExists, registryVars, batchVars, request, indexVars>>

InitFilename == Start({[dir |-> TRUE, files |-> NoFiles]})

NextFilename ==
    \/ \E item \in Descriptors, ok \in BOOLEAN : CallDownloadModel(item, ok)
    \/ CallDetectAvailableLanguages

SpecFilename == InitFilename /\ [][NextFilename]_vars

----------------------------------------------------------------------------
(* find_translation called with language codes that contain "_"             *)

ZH == <<"z","h">>
ZH_TW == <<"z","h","_","t","w">>
TW_EN == <<"t","w","_","e","n">>

\* the codes a caller of find_translation may pass
KeyCodes == {ZH, ZH_TW, TW_EN, EN}

\* the packages the runtime may hold
KeyPackages == {<<ZH_TW, EN>>, <<EN, ZH_TW>>, <<ZH, EN>>}

InitKeys == StartWith({[dir |-> TRUE, files |-> NoFiles]}, SUBSET KeyPackages)

NextKeys ==
    \/ \E a \in KeyCodes, b \in KeyCodes : CallFindTranslation(a, b)
    \/ CallGetInstalledLanguages
    \/ CallCleanModelCache

SpecKeys == InitKeys /\ [][NextKeys]_vars

----------------------------------------------------------------------------
(* Properties                                                              *)

\* C1: after every install_model that returned true, the memoized
\* installed-language snapshot is cleared and LANGUAGE_CACHE holds no entry.
C1_InstallInvalidatesBothCaches ==
    (ret.op = "install_model" /\ ret.val = TRUE)
        => (~snapshot.valid /\ DOMAIN LANGUAGE_CACHE = {})

\* C2: find_translation(from, to) returns a path only if both languages are
\* in the runtime's installed-language set at the moment of the return.
C2_PathOnlyForInstalledLanguages ==
    (ret.op = "find_translation" /\ Returned(ret.val))
        => {ret.arg[1], ret.arg[2]} \subseteq LanguageCodes(packages)

\* C3: a get_installed_languages() call returns the runtime's installed
\* packages as they are at the call, never a snapshot memoized before an
\* install, also for main's read - batch install - read.
C3_ReadsAreFresh ==
    ret.op = "get_installed_languages" => ret.val = packages

\* C3 witness: main read an empty set, ran the batch install and read again
C3_Witness ==
    /\ pc = "main_find"
    /\ caller = "main"
    /\ installed > 0
    /\ ret.op = "get_installed_languages"
    /\ ret.val # {}

\* the pairs that the names of the model files encode, by the convention
\* translate-<input>_<output>-<version>.argosmodel
EncodedPairs(files) ==
    {p \in Codes \X Codes :
        \E n \in model_files(files) : n = PackageFile(p[1], p[2], V1_0)}

\* C4: detect_available_languages holds (input, output) for every file named
\* translate-<input>_<output>-<version>.argosmodel, holds (output, input) only
\* if another file encodes it, and a name off the convention adds no pair.
C4_PairsFollowTheFileNames ==
    ret.op = "detect_available_languages" =>
        /\ \A p \in EncodedPairs(store) : p \in ret.val
        /\ \A p \in EncodedPairs(store) :
               <<p[2], p[1]>> \in ret.val => <<p[2], p[1]>> \in EncodedPairs(store)
        /\ ret.val \subseteq EncodedPairs(store)

\* the store that holds only translate-en_sk-1_0.argosmodel
OnlyEnSk == Store({EN_SK}, {})

\* C5: with only translate-en_sk-1_0.argosmodel in the store and nothing
\* installed, the request (en, sk) passes the pair validation and is not
\* stopped before the translation, and the request (sk, en) is rejected at the
\* pair validation with a non-zero exit and no install started.
C5_OnlyEnSkServesEnSk ==
    (store = OnlyEnSk /\ request # <<>> /\ pc \notin {"main_validate", "idle"}) =>
        /\ request = <<EN, SK>> =>
               ~(ret.op = "sys.exit"
                 /\ ret.arg \in {"validate_language_code", "find_translation"})
        /\ request = <<SK, EN>> =>
               /\ pc = "exited"
               /\ ret = [op |-> "sys.exit", arg |-> "validate_language_code", val |-> 1]
               /\ futures = <<>>

\* the batch of install_models_from_local_dir has just ended
BatchEnded ==
    \/ ret.op = "install_models_from_local_dir"
    \/ ret.op = "sys.exit" /\ ret.arg = "install_models_from_local_dir:none_installed"

\* the install tasks that returned true
Succeeded == {f \in DOMAIN futures : futures[f] = "true"}

\* C8: when the batch ends every one of the N install tasks has run, the
\* counter is the number of tasks that succeeded (N-k), and with at least one
\* success the function returns instead of exiting.
C8_BatchIsolatesFailures ==
    BatchEnded =>
        /\ \A f \in DOMAIN futures : futures[f] \in {"true", "false"}
        /\ installed = Cardinality(Succeeded)
        /\ Cardinality(Succeeded) >= 1 =>
               /\ ret.op = "install_models_from_local_dir"
               /\ ret.val = Cardinality(Succeeded)

\* C8 witness: a batch of three files of which exactly one failed
C8_Witness ==
    /\ ret.op = "install_models_from_local_dir"
    /\ Cardinality(DOMAIN futures) = 3
    /\ installed = 2
    /\ \E f \in DOMAIN futures : futures[f] = "false"

\* the download task is the only one of the run that writes its destination
Unshared(i) ==
    \A j \in DOMAIN downloads \ {i} : Dest(j) # Dest(i)

\* what download_file promises about the file at the destination of task i
C6_Download(i) ==
    LET d == downloads[i]
    IN  /\ (d.state = "request" /\ d.attempt > 0) => Dest(i) \notin DOMAIN store
        /\ (d.state = "false" /\ d.why \in {"404", "exhausted"})
               => Dest(i) \notin DOMAIN store
        /\ (Finished(i) /\ d.why # "exists" /\ Dest(i) \in DOMAIN store)
               => (d.state = "true" /\ store[Dest(i)] = Full)

\* download_file leaves no partial file at a destination that no other task
\* of the run writes
C6_NoPartialFileLeft ==
    \A i \in DOMAIN downloads : Unshared(i) => C6_Download(i)

\* C6: download_file leaves no partial file: after a failed attempt the file
\* is gone before the next attempt starts; after a return of false (404 or
\* attempts exhausted) no file is at dest_path; and a file is at dest_path
\* after the call only if it returned true and the body was written to its end.
C6_NoPartialFileLeftAnywhere ==
    \A i \in DOMAIN downloads : C6_Download(i)

\* C6 witness: every attempt of a download failed and no file is left
C6_Witness ==
    \E i \in DOMAIN downloads :
        /\ Unshared(i)
        /\ downloads[i].why = "exhausted"
        /\ Dest(i) \notin DOMAIN store

\* how far a download task is: strictly larger after each of its steps
Rank(d) ==
    CASE d.state = "queued"  -> 0
      [] d.state = "request" -> 4 * d.attempt + 1
      [] d.state = "writing" -> 4 * d.attempt + 2
      [] d.state = "cleanup" -> 4 * d.attempt + 3
      [] d.state = "remove"  -> 4 * d.attempt + 4
      [] OTHER               -> 4 * RETRIES + 1

\* the counts of a download task at each point of download_file
C7_Bounded ==
    \A i \in DOMAIN downloads :
        LET d == downloads[i]
        IN  /\ d.requests <= RETRIES
            /\ d.state = "request" => (d.requests = d.attempt /\ d.attempt < RETRIES)
            /\ d.state \in {"writing", "cleanup", "remove"} => d.requests = d.attempt + 1
            /\ d.why = "404" => (d.state = "false" /\ d.requests = d.attempt + 1)
            /\ d.why = "exhausted" => (d.state = "false" /\ d.requests = RETRIES)
            /\ d.state = "true" => d.requests = d.attempt + 1
            /\ Unshared(i) => d.why # "raised"
            /\ d.state \in {"request", "writing", "cleanup", "remove"} =>
                   ENABLED (DlRequest(i, "ok") \/ DlWrite(i, TRUE)
                                \/ DlCleanup(i) \/ DlRemove(i))

\* every step of a download task moves it forward, and a finished task
\* (true, false) issues no further request
C7_Forward ==
    \A i \in DOMAIN downloads :
        (i \in DOMAIN downloads' /\ downloads'[i] # downloads[i]) =>
            /\ ~Finished(i)
            /\ Rank(downloads'[i]) > Rank(downloads[i])
            /\ Rank(downloads'[i]) <= 4 * RETRIES + 1

\* download_file terminates and bounds its attempts, and it does not raise
\* when no other task of the run removes its file
C7_DownloadTerminates == []C7_Bounded /\ [][C7_Forward]_vars

\* no call of download_file ends by raising
C7_ReturnsFalse ==
    \A i \in DOMAIN downloads : downloads[i].why # "raised"

\* C7: download_file terminates and bounds its attempts: at most RETRIES
\* requests; a 404 ends the call at once with false; another attempt follows a
\* failure only while fewer than RETRIES were made; after RETRIES failures it
\* returns false instead of raising; it returns true at the first attempt
\* that completes.
C7_DownloadTerminatesAnywhere ==
    []C7_Bounded /\ []C7_ReturnsFalse /\ [][C7_Forward]_vars

\* C7 witness: a download gave up after RETRIES requests
C7_Witness ==
    \E i \in DOMAIN downloads :
        /\ downloads[i].why = "exhausted"
        /\ downloads[i].requests = RETRIES

\* the downloads of the run that were attempted (a request was issued)
Attempted == {i \in DOMAIN downloads : downloads[i].requests > 0}

\* C9: a concurrent batch in which zero items succeed ends the process with a
\* non-zero status: the install batch in which no file installs, and the
\* download batch in which every attempted download fails.
C9_ZeroSuccessIsFatal ==
    /\ (/\ pc \notin {"idle", "batch"}
        /\ DOMAIN futures # {}
        /\ Succeeded = {})
           => (pc = "exited" /\ exitCode # 0)
    /\ (/\ summary.printed
        /\ Attempted # {}
        /\ \A i \in Attempted : downloads[i].state = "false")
           => (pc = "exited" /\ exitCode # 0)

\* C10: the summary of an index-driven install is accurate: "Packages
\* downloaded" is the number of valid entries fetched in this run, "Packages
\* skipped (already exist)" the number of valid entries whose destination file
\* was in the store before the run.
C10_SummaryIsAccurate ==
    summary.printed =>
        /\ summary.downloaded =
               Cardinality({i \in DOMAIN downloads : downloads[i].state = "true"})
        /\ summary.skipped =
               Cardinality({i \in DOMAIN downloads : Dest(i) \in before})

\* a call find_translation(a, b) ends with this step
FindTranslationStep(a, b) ==
    \/ /\ pc = "idle"
       /\ pc' = "idle"
       /\ ret'.op = "find_translation"
       /\ ret'.arg = <<a, b>>
    \/ /\ pc = "main_find"
       /\ pc' # "main_find"
       /\ request = <<a, b>>

\* what a find_translation step can change: the two caches, and the call
\* and the result that ret names
FindTranslationView ==
    <<LANGUAGE_CACHE, snapshot, pc, ret.op,
      IF ret.op = "find_translation" THEN <<ret.arg, ret.val>> ELSE <<>>>>

\* a path that find_translation returned is the entry of its pair
C11_ReturnedIsCached ==
    (ret.op = "find_translation" /\ Returned(ret.val)) =>
        /\ cache_key(ret.arg[1], ret.arg[2]) \in DOMAIN LANGUAGE_CACHE
        /\ LANGUAGE_CACHE[cache_key(ret.arg[1], ret.arg[2])] = ret.val.val

\* no step removes or replaces an entry of LANGUAGE_CACHE, and a call for a
\* pair that has an entry returns that entry, leaves the lru_cache of
\* get_installed_languages as it was (no read) and resolves nothing
C11_CachedCall ==
    /\ \A k \in DOMAIN LANGUAGE_CACHE :
           /\ k \in DOMAIN LANGUAGE_CACHE'
           /\ LANGUAGE_CACHE'[k] = LANGUAGE_CACHE[k]
    /\ \A a \in Codes, b \in Codes :
           (FindTranslationStep(a, b) /\ cache_key(a, b) \in DOMAIN LANGUAGE_CACHE) =>
               /\ ret'.op = "find_translation"
               /\ ret'.val = [kind |-> "cached",
                              val |-> LANGUAGE_CACHE[cache_key(a, b)]]
               /\ snapshot' = snapshot
               /\ LANGUAGE_CACHE' = LANGUAGE_CACHE

\* C11: once find_translation(from, to) returned a path, every later call
\* with the same ordered pair returns the identical path object, without
\* reading the installed-language snapshot and without resolving again.
C11_FindTranslationIdempotent ==
    []C11_ReturnedIsCached /\ [][C11_CachedCall]_FindTranslationView

\* C11 witness: a call returned the cached object although the lru_cache was
\* cleared and the runtime's packages are no longer those it was resolved from
C11_Witness ==
    /\ ret.op = "find_translation"
    /\ ret.val.kind = "cached"
    /\ ~snapshot.valid
    /\ ret.val.val.langs # packages

\* C12: after every clean_model_cache, whether the cleanup succeeded, failed
\* for some files or failed as a whole (sys.exit(1)), the memoized
\* installed-language snapshot is cleared and LANGUAGE_CACHE holds no entry.
C12_CleanClearsAllCaches ==
    (\/ ret.op = "clean_model_cache"
     \/ ret.op = "sys.exit" /\ ret.arg = "clean_model_cache")
        => (~snapshot.valid /\ DOMAIN LANGUAGE_CACHE = {})

\* C13: a file that an interrupted run left partially written at the
\* destination of a valid index entry (Part(0): no task of this run opened it)
\* is not kept by the next index-driven install: once the download of the
\* entry has ended (downloaded, failed or skipped as already existing), the
\* file at the destination is not that incomplete file any more.
C13_PartialFileRepaired ==
    \A i \in DOMAIN downloads :
        (Finished(i) /\ Dest(i) \in DOMAIN store) => store[Dest(i)] # Part(0)

\* what the steps of a translation request move
RequestView == <<pc, packages, LANGUAGE_CACHE, caller>>

\* the steps of a translation request, each told by the position it leaves
\* or reaches
C14_Step ==
    \* (a) the text is read only for a pair that passed the validation
    /\ (pc' = "main_text" /\ pc # "main_text") =>
           /\ pc = "main_validate"
           /\ validate_language_code(request[1], request[2],
                                     available_language_pairs(store))
    \* a pair that failed the validation ends the process at once
    /\ (/\ pc = "main_validate"
        /\ dirExists /\ model_files(store) # {}
        /\ ~validate_language_code(request[1], request[2],
                                    available_language_pairs(store))) =>
           /\ pc' \in {"main_validate", "exited"}
           /\ UNCHANGED <<packages, snapshot, LANGUAGE_CACHE, futures>>
    \* (b) follows (a)
    /\ (pc' = "main_ensure" /\ pc # "main_ensure") => pc = "main_text"
    \* the bulk install is started (up to its own directory check) if and only
    \* if nothing is installed
    /\ (pc = "main_ensure" /\ pc' # "main_ensure") =>
           /\ packages = {} =>
                  \/ pc' = "batch" /\ caller' = "main"
                  \/ /\ pc' = "exited"
                     /\ ret'.arg = "install_models_from_local_dir:no_models"
           /\ packages # {} => (pc' = "main_read" /\ UNCHANGED futures)
    /\ (pc' = "batch" /\ pc # "batch" /\ caller' = "main") =>
           (pc = "main_ensure" /\ packages = {})
    \* (c) follows (b)
    /\ (pc' = "main_read" /\ pc # "main_read") =>
           \/ pc = "main_ensure"
           \/ pc = "batch" /\ caller = "main"
    /\ (pc' = "main_find" /\ pc # "main_find") => pc = "main_read"
    \* (d) translate is reached only when find_translation returned a path
    /\ (pc' = "main_translate" /\ pc # "main_translate") =>
           /\ pc = "main_find"
           /\ ret'.op = "find_translation"
           /\ ret'.arg = request
           /\ ret'.val.kind \in {"cached", "resolved"}
    \* within a request, packages are installed only by the bulk install and
    \* a path is resolved only at (c)
    /\ (request # <<>> /\ pc # "idle" /\ packages' # packages) =>
           (pc = "batch" /\ caller = "main")
    /\ (request # <<>> /\ pc # "idle" /\ LANGUAGE_CACHE' # LANGUAGE_CACHE) =>
           pc = "main_find"
    \* nothing follows the end of the process
    /\ pc = "exited" => pc' = "exited"

\* C14: a translation request runs validate pair -> ensure installed ->
\* resolve path -> translate in this order and skips none: nothing is
\* installed, resolved or translated for a pair that failed the validation;
\* the bulk local install is started if and only if nothing is installed,
\* never because only the requested pair is missing; translate is invoked
\* only after find_translation returned a path.
C14_StrictSequence == [][C14_Step]_RequestView

\* C14 witness: a request whose input language is not installed, with other
\* languages installed, went from (b) to (c) without any bulk install
C14_Witness ==
    /\ pc = "main_read"
    /\ futures = <<>>
    /\ packages # {}
    /\ request[1] \notin LanguageCodes(packages)

\* a call find_translation(a, b) that finds no entry of its pair: the error
\* it raises, told from the list get_installed_languages() returns to it,
\* and what it does to LANGUAGE_CACHE
C15_Miss ==
    \A a \in Codes, b \in Codes :
        (FindTranslationStep(a, b) /\ cache_key(a, b) \notin DOMAIN LANGUAGE_CACHE) =>
            LET langs == get_installed_languages(snapshot, packages)
                codes == LanguageCodes(langs)
                failing == a \notin codes \/ b \notin codes \/ <<a, b>> \notin langs
            IN  /\ failing =>
                       /\ LANGUAGE_CACHE' = LANGUAGE_CACHE
                       /\ pc = "main_find" => (pc' = "exited" /\ exitCode' = 1)
                /\ (pc = "idle" /\ a \notin codes) =>
                       (ret'.val.kind = "not_installed" /\ ret'.val.val = a)
                /\ (pc = "idle" /\ a \in codes /\ b \notin codes) =>
                       (ret'.val.kind = "not_installed" /\ ret'.val.val = b)
                /\ (pc = "idle" /\ a \in codes /\ b \in codes /\ <<a, b>> \notin langs) =>
                       ret'.val.kind = "no_path"
                /\ (pc = "idle" /\ ret'.val.kind = "no_path") => {a, b} \subseteq codes
                /\ ~failing =>
                       /\ ret'.op = "find_translation"
                       /\ ret'.val.kind = "resolved"
                       /\ DOMAIN LANGUAGE_CACHE' =
                              DOMAIN LANGUAGE_CACHE \cup {cache_key(a, b)}
                       /\ LANGUAGE_CACHE'[cache_key(a, b)] = ret'.val.val
                       /\ \A k \in DOMAIN LANGUAGE_CACHE :
                              LANGUAGE_CACHE'[k] = LANGUAGE_CACHE[k]

\* C15: on a cache miss find_translation raises the not-installed error
\* naming the code when the 'from' or the 'to' language is absent from the
\* installed-language snapshot, the no-translation-path error only when both
\* are installed and the runtime has no path, adds no entry to LANGUAGE_CACHE
\* when it fails, and adds exactly the entry of the pair when it resolves.
C15_FailureKindsAndCleanCache == [][C15_Miss]_FindTranslationView

\* C15 witness: with an entry of another pair in LANGUAGE_CACHE, a call ended
\* with the no-translation-path error and left no entry for its pair
C15_Witness ==
    /\ ret.op = "find_translation"
    /\ ret.val.kind = "no_path"
    /\ DOMAIN LANGUAGE_CACHE # {}
    /\ cache_key(ret.arg[1], ret.arg[2]) \notin DOMAIN LANGUAGE_CACHE

\* "en_sk-1_9.argosmodel"
EN_SK_1_9 == <<"e","n","_","s","k","-","1","_","9">> \o ARGOSMODEL

\* <version with every "." replaced by "_">, character by character
Underscored(version) ==
    [k \in 1..Len(version) |-> IF version[k] = "." THEN "_" ELSE version[k]]

\* the (input, output) of a descriptor whose code is <input>_<output>, with
\* or without the prefix "translate-"
DescriptorPair(item) ==
    CHOOSE p \in Codes \X Codes :
        item.code \in {p[1] \o <<"_">> \o p[2],
                       TRANSLATE_PREFIX \o p[1] \o <<"_">> \o p[2]}

\* the descriptors whose generated file name is in the store
Written == {item \in Descriptors :
               generate_filename(item.code, item.package_version) \in DOMAIN store}

\* C16: generate_filename(code, version) is <code>-<version with every "."
\* replaced by "_">.argosmodel ("en_sk", "1.9" gives "en_sk-1_9.argosmodel"),
\* and detect_available_languages recovers the (input, output) of every
\* descriptor from the file that its download wrote under that name.
C16_FilenameReversible ==
    /\ \A item \in Written :
           LET name == generate_filename(item.code, item.package_version)
           IN  /\ name = item.code \o <<"-">> \o Underscored(item.package_version)
                             \o ARGOSMODEL
               /\ (item.code = EN \o <<"_">> \o SK
                       /\ item.package_version = <<"1", ".", "9">>)
                      => name = EN_SK_1_9
    /\ ret.op = "detect_available_languages" =>
           \A item \in Written : DescriptorPair(item) \in ret.val

\* the install tasks and the download tasks that have not returned yet
InstallsInFlight == {f \in DOMAIN futures : futures[f] \notin {"true", "false"}}
DownloadsInFlight == {i \in DOMAIN downloads : ~Finished(i)}

\* past the with block of a batch every task has returned and was counted
C17_Joined ==
    /\ pc # "batch" =>
           /\ InstallsInFlight = {}
           /\ collected = DOMAIN futures
           /\ installed = Cardinality(Succeeded)
    /\ pc # "download" =>
           /\ DownloadsInFlight = {}
           /\ yielded = DOMAIN downloads
           /\ packages_downloaded =
                  Cardinality({i \in DOMAIN downloads : downloads[i].state = "true"})
    /\ summary.printed => summary.downloaded = packages_downloaded

\* a step that reads the installed-language cache (get_installed_languages
\* returns, its value memoized) is taken while no install task is running
C17_ReadStep ==
    (snapshot'.valid /\ (~snapshot.valid \/ pc \in {"main_ensure", "main_read"}))
        => InstallsInFlight = {}

\* C17: the success count of install_models_from_local_dir and of the
\* download phase of install_models_from_index is compared and reported, and
\* the next phase (zero-success check, summary, install of the downloaded
\* models) starts, only after every submitted task has finished, for every
\* completion order; and the installed-language cache is not read while an
\* install task of the batch is running.
C17_JoinNotRace == []C17_Joined /\ [][C17_ReadStep]_<<snapshot, pc>>

\* C17 witness: main read the installed languages after a batch of several
\* install tasks of which one failed and one succeeded
C17_Witness ==
    /\ pc = "main_find"
    /\ caller = "main"
    /\ \E f \in DOMAIN futures : futures[f] = "true"
    /\ \E f \in DOMAIN futures : futures[f] = "false"
    /\ installed = Cardinality(Succeeded)

\* C18: at no time more than MAX_DOWNLOAD_THREADS downloads are in flight,
\* and during an index-driven install the install phase runs under a fixed
\* worker cap smaller than the download cap: fewer than MAX_DOWNLOAD_THREADS
\* install tasks run at a time.
C18_WorkerCaps ==
    /\ Cardinality(Active) <= MAX_DOWNLOAD_THREADS
    /\ (pc = "batch" /\ caller = "index") =>
           Cardinality(InstallsRunning) < MAX_DOWNLOAD_THREADS

\* what a step can do to the directory, and the call it ends
DirectoryView == <<dirExists, store, pc, ret.op>>

\* a step ends ensure_models_dir: called alone, or at the start of
\* install_models_from_index
EnsureStep ==
    /\ pc = "idle"
    /\ \/ ret'.op = "ensure_models_dir"
       \/ pc' = "download"
       \/ ret'.op = "sys.exit" /\ ret'.arg = "install_models_from_index"

C19_Step ==
    \* a read operation that finds no directory is fatal and creates none
    /\ (/\ ~dirExists
        /\ pc # "exited"
        /\ ~EnsureStep
        /\ \/ ret'.op \in {"detect_available_languages", "submit"}
           \/ /\ ret'.op = "sys.exit"
              /\ ret'.arg \in {"detect_available_languages",
                                "install_models_from_local_dir:no_models",
                                "install_models_from_local_dir:none_installed"}) =>
           /\ ret'.op = "sys.exit"
           /\ ret'.arg \in {"detect_available_languages",
                             "install_models_from_local_dir:no_models"}
           /\ pc' = "exited"
           /\ exitCode' = 1
           /\ ~dirExists'
    \* only ensure_models_dir creates the directory, and nothing removes it
    /\ dirExists' # dirExists => (dirExists' /\ EnsureStep)
    \* ensure_models_dir on an existing directory changes nothing
    /\ (EnsureStep /\ dirExists) => (dirExists' /\ store' = store)
    /\ (EnsureStep /\ ~dirExists) => (dirExists' /\ store' = NoFiles)

\* C19: with the models directory absent, detect_available_languages and
\* install_models_from_local_dir end with a fatal failure and the directory
\* is still absent; only ensure_models_dir (the index-driven install) creates
\* it, and on an existing directory it changes nothing.
C19_ReadsNeverCreateDir ==
    [](~dirExists => store = NoFiles) /\ [][C19_Step]_DirectoryView

\* C19 witness: install_models_from_local_dir ended the process because the
\* directory is absent, and it is still absent
C19_Witness ==
    /\ ~dirExists
    /\ ret.op = "sys.exit"
    /\ ret.arg = "install_models_from_local_dir:no_models"
    /\ exitCode = 1

\* the download task i takes this step
DownloadStep(i) ==
    /\ pc = "download"
    /\ i \in DOMAIN downloads
    /\ downloads'[i] # downloads[i]

\* what a step does to the files of the store
C20_Step ==
    \* a file is deleted only by the os.remove of a failed attempt, which
    \* deletes its destination and leaves the other files as they are
    /\ \A n \in DOMAIN store \ DOMAIN store' :
           \E i \in DOMAIN downloads :
               /\ DownloadStep(i)
               /\ downloads[i].state = "remove"
               /\ Dest(i) = n
               /\ \A m \in DOMAIN store \ {n} :
                      m \in DOMAIN store' /\ store'[m] = store[m]
    \* a file is written only by a download task, at its own destination
    /\ \A n \in DOMAIN store' :
           (n \notin DOMAIN store \/ store'[n] # store[n]) =>
               \E i \in DOMAIN downloads :
                   /\ DownloadStep(i)
                   /\ downloads[i].state \in {"request", "writing"}
                   /\ Dest(i) = n
    \* install_model, install_models_from_local_dir, clean_model_cache and a
    \* translation request change no file
    /\ pc # "download" => store' = store
    \* the files the store held before an index-driven install stay as they are
    /\ pc = "download" =>
           \A n \in before : n \in DOMAIN store' /\ store'[n] = store[n]

\* an index entry whose destination file was in the store is not downloaded
C20_ExistingSkipped ==
    \A i \in DOMAIN downloads :
        Dest(i) \in before =>
            /\ downloads[i].requests = 0
            /\ downloads[i].state \in {"queued", "false"}
            /\ downloads[i].state = "false" => downloads[i].why = "exists"
            /\ Dest(i) \in DOMAIN store

\* C20: a file of the model store is deleted only by the cleanup of a failed
\* download attempt, which removes only the destination of that download; a
\* successful download, install_model, install_models_from_local_dir,
\* clean_model_cache and a translation request leave the files already in the
\* store in place and unmodified; an index entry whose destination file
\* exists is not downloaded and its file is untouched.
C20_FilesDeletedOnlyByCleanup == []C20_ExistingSkipped /\ [][C20_Step]_store

\* C20 witness: an entry whose file was in the store was skipped and the file
\* is still there, while another download gave up and left no file
C20_Witness ==
    /\ \E i \in DOMAIN downloads :
           /\ downloads[i].why = "exists"
           /\ Dest(i) \in before
           /\ store[Dest(i)] = Full
    /\ \E j \in DOMAIN downloads :
           /\ downloads[j].why = "exhausted"
           /\ Dest(j) \notin DOMAIN store

\* C21: concurrent downloads do not destroy each other's results, also when
\* two valid entries of the index have the same destination: a download that
\* returned true has its file at its destination (no sibling's cleanup
\* deleted it), and when the batch has ended that file is complete.
C21_DownloadsKeepTheirResults ==
    \A i \in DOMAIN downloads :
        downloads[i].state = "true" =>
            /\ Dest(i) \in DOMAIN store
            /\ pc # "download" => store[Dest(i)] = Full

\* C22: LANGUAGE_CACHE is keyed by the ordered pair without collisions: the
\* path find_translation returns for (from, to) is a path from `from` to `to`,
\* never one resolved and cached for another ordered pair, also for the
\* reversed pair and for codes that contain "_".
C22_NoKeyCollision ==
    (ret.op = "find_translation" /\ Returned(ret.val)) =>
        /\ ret.val.val.from = ret.arg[1]
        /\ ret.val.val.to = ret.arg[2]

====
